---------------------------- MODULE Spec2Model ----------------------------
(***************************************************************************)
(* Model of the LOV connectivity search pipeline of src/src/App.jsx (the   *)
(* later of the two variants in the file, lines 388-814): the scoring      *)
(* function, the two remote clients, the metadata merge and the            *)
(* performSearch state machine over the React state (loading,              *)
(* searchResults, error).                                                  *)
(*                                                                         *)
(* JavaScript runs each synchronous block to completion, so one action of  *)
(* the model is one block: from an event (a user gesture, a network reply) *)
(* up to the next await on the network.                                    *)
(***************************************************************************)
EXTENDS Integers, Sequences, FiniteSets, TLC

(***************************************************************************)
(* JavaScript values.  Every value is a record of the same shape so that   *)
(* any two can be compared: k is the type tag, n the payload of a number,  *)
(* s the characters of a string.                                           *)
(***************************************************************************)
Undefined   == [k |-> "undefined", n |-> 0, s |-> <<>>]
NaN         == [k |-> "NaN", n |-> 0, s |-> <<>>]
NegInfinity == [k |-> "-Infinity", n |-> 0, s |-> <<>>]
JsNum(n)    == [k |-> "number", n |-> n, s |-> <<>>]
JsStr(s)    == [k |-> "string", n |-> 0, s |-> s]

\* JavaScript truthiness, as used by `a || b` and filter(Boolean).
Truthy(v) ==
  CASE v.k = "undefined" -> FALSE
    [] v.k = "NaN"       -> FALSE
    [] v.k = "number"    -> v.n # 0
    [] v.k = "string"    -> v.s # <<>>
    [] OTHER             -> TRUE

\* a || b
Or(a, b) == IF Truthy(a) THEN a ELSE b

\* obj.name on a plain object: undefined when the property is absent.
Field(obj, name) == IF name \in DOMAIN obj THEN obj[name] ELSE Undefined

WhiteSpace == {" ", "\t", "\n"}
Digits     == <<"0", "1", "2", "3", "4", "5", "6", "7", "8", "9">>

IsDigit(c) == \E d \in DOMAIN Digits : Digits[d] = c

DigitValue(c) == (CHOOSE d \in DOMAIN Digits : Digits[d] = c) - 1

RECURSIVE TrimStart(_)
TrimStart(s) ==
  IF s # <<>> /\ Head(s) \in WhiteSpace THEN TrimStart(Tail(s)) ELSE s

RECURSIVE TrimEnd(_)
TrimEnd(s) ==
  IF s # <<>> /\ s[Len(s)] \in WhiteSpace
    THEN TrimEnd(SubSeq(s, 1, Len(s) - 1))
    ELSE s

\* String.prototype.trim
Trim(s) == TrimEnd(TrimStart(s))

\* The value of the longest prefix of decimal digits of s, read after acc.
RECURSIVE DigitPrefix(_, _)
DigitPrefix(s, acc) ==
  IF s # <<>> /\ IsDigit(Head(s))
    THEN DigitPrefix(Tail(s), 10 * acc + DigitValue(Head(s)))
    ELSE acc

\* parseInt of a string: leading white space skipped, an optional sign, then
\* the longest prefix of digits; NaN when there is no digit.
ParseIntStr(str) ==
  LET t    == TrimStart(str)
      neg  == t # <<>> /\ Head(t) = "-"
      body == IF t # <<>> /\ Head(t) \in {"-", "+"} THEN Tail(t) ELSE t
  IN  IF body = <<>> \/ ~IsDigit(Head(body))
        THEN NaN
        ELSE JsNum(IF neg THEN 0 - DigitPrefix(body, 0) ELSE DigitPrefix(body, 0))

\* parseInt(v): the argument is converted to a string first; undefined gives
\* "undefined", which has no digit.
ParseInt(v) ==
  CASE v.k = "string" -> ParseIntStr(v.s)
    [] v.k = "number" -> v
    [] OTHER          -> NaN

(***************************************************************************)
(* Numbers of the scoring function are fixed-point.  Math.log takes its    *)
(* argument in thousandths (the code only forms 1 + count and              *)
(* 1 + occurrences / 1000) and returns millionths, from a table of the     *)
(* natural logarithm rounded to six decimals.  Math.log(0) is -Infinity    *)
(* and the logarithm of a negative number is NaN.                          *)
(***************************************************************************)
LogTable ==
  [m \in {500, 1000, 1500, 2000, 3000, 4000, 7000, 8000, 20000, 100000} |->
     CASE m = 500    -> 0 - 693147
       [] m = 1000   -> 0
       [] m = 1500   -> 405465
       [] m = 2000   -> 693147
       [] m = 3000   -> 1098612
       [] m = 4000   -> 1386294
       [] m = 7000   -> 1945910
       [] m = 8000   -> 2079442
       [] m = 20000  -> 2995732
       [] m = 100000 -> 4605170]

\* Math.log(x), x a number value in thousandths.
MathLog(x) ==
  CASE x.k # "number" -> NaN
    [] x.n < 0        -> NaN
    [] x.n = 0        -> NegInfinity
    [] OTHER          -> JsNum(LogTable[x.n])

\* a + b for the values Math.log returns (there is no +Infinity among them).
Plus(a, b) ==
  CASE a.k = "NaN" \/ b.k = "NaN"             -> NaN
    [] a.k = "-Infinity" \/ b.k = "-Infinity" -> NegInfinity
    [] OTHER                                  -> JsNum(a.n + b.n)

\* w * a for a positive weight w.
Times(w, a) == IF a.k = "number" THEN JsNum(w * a.n) ELSE a

OccurrenceDivisor == 1000
DesignWeight      == 6
AdoptionWeight    == 4
Normalizer        == 15

\* 1 + c, in thousandths, for a whole number c.
OnePlus(c) == IF c.k = "number" THEN JsNum(1000 + 1000 * c.n) ELSE NaN

\* 1 + c / 1000, in thousandths.
OnePlusPerMille(c) ==
  IF c.k = "number" THEN JsNum(1000 + (1000 * c.n) \div OccurrenceDivisor) ELSE NaN

\* The value 1 of a score.  A score is counted in units of
\* 1 / (10 * Normalizer * 10^6): totalScore is 6 * design + 4 * adoption in
\* tenths of millionths, and dividing by Normalizer only changes the unit.
ScoreOne == 10 * Normalizer * 10^6

\* Mutant of MinOne: the score without the cap.
MinOneUncapped(x) == x

\* Math.min(1, x): NaN if x is NaN.
MinOne(x) ==
  CASE x.k = "NaN"       -> NaN
    [] x.k = "-Infinity" -> NegInfinity
    [] OTHER             -> JsNum(IF x.n < ScoreOne THEN x.n ELSE ScoreOne)

\* The sum of Math.log(1 + count) over the six relationship counts, each
\* read as designData[name] || 0.
DesignConvergence(designData) ==
  LET extendsCount    == Or(Field(designData, "extends"), JsNum(0))
      hasEquivalences == Or(Field(designData, "hasEquivalencesWith"), JsNum(0))
      reliesOn        == Or(Field(designData, "reliesOn"), JsNum(0))
      usedBy          == Or(Field(designData, "usedBy"), JsNum(0))
      specializes     == Or(Field(designData, "specializes"), JsNum(0))
      generalizes     == Or(Field(designData, "generalizes"), JsNum(0))
  IN  Plus(Plus(Plus(Plus(Plus(MathLog(OnePlus(extendsCount)),
                               MathLog(OnePlus(hasEquivalences))),
                          MathLog(OnePlus(reliesOn))),
                     MathLog(OnePlus(usedBy))),
                MathLog(OnePlus(specializes))),
           MathLog(OnePlus(generalizes)))

\* Mutant of AdoptionConvergence: the fields read as parseInt(field), without
\* the fallback to 0.
AdoptionConvergenceNoFallback(adoptionData) ==
  LET reusedByVocabs   == ParseInt(Field(adoptionData, "reusedByVocabularies"))
      reusedByDatasets == ParseInt(Field(adoptionData, "reusedByDatasets"))
      occurrences      == ParseInt(Field(adoptionData, "occurrencesInDatasets"))
  IN  Plus(Plus(MathLog(OnePlus(reusedByVocabs)), MathLog(OnePlus(reusedByDatasets))),
           MathLog(OnePlusPerMille(occurrences)))

\* The adoption fields are read as parseInt(field) || 0.
AdoptionConvergence(adoptionData) ==
  LET reusedByVocabs   == Or(ParseInt(Field(adoptionData, "reusedByVocabularies")), JsNum(0))
      reusedByDatasets == Or(ParseInt(Field(adoptionData, "reusedByDatasets")), JsNum(0))
      occurrences      == Or(ParseInt(Field(adoptionData, "occurrencesInDatasets")), JsNum(0))
  IN  Plus(Plus(MathLog(OnePlus(reusedByVocabs)), MathLog(OnePlus(reusedByDatasets))),
           MathLog(OnePlusPerMille(occurrences)))

\* Mutant of TotalScore: the two weights exchanged.
TotalScoreWeightsSwapped(designConvergence, adoptionConvergence) ==
  Plus(Times(4, designConvergence), Times(6, adoptionConvergence))

\* Mutant of TotalScore: a constant added to the weighted sum.
TotalScoreBiased(designConvergence, adoptionConvergence) ==
  Plus(Plus(Times(6, designConvergence), Times(4, adoptionConvergence)), JsNum(1))

\* Mutant of TotalScore: the adoption term subtracted.
TotalScoreAdoptionSubtracted(designConvergence, adoptionConvergence) ==
  Plus(Times(6, designConvergence), Times(0 - 4, adoptionConvergence))

\* totalScore = 0.6 * designConvergence + 0.4 * adoptionConvergence
TotalScore(designConvergence, adoptionConvergence) ==
  Plus(Times(DesignWeight, designConvergence),
       Times(AdoptionWeight, adoptionConvergence))

calculateConnectivityScore(adoptionData, designData) ==
  MinOne(TotalScore(DesignConvergence(designData), AdoptionConvergence(adoptionData)))


(***************************************************************************)
(* Remote replies.  A reply is what one fetch ends with:                   *)
(*   net   "ok" when the transport delivered a response, "fail" when the   *)
(*         fetch promise rejects (DNS, connection refused, ...);           *)
(*   ok    response.ok (a 2xx status);                                     *)
(*   json  whether response.json() parses the body;                        *)
(*   shape the shape of the parsed body, rows its array (when it has one). *)
(* Shapes of a keyword-search body:                                        *)
(*   "null"            the body null                                       *)
(*   "noResults"       {}            (results undefined)                   *)
(*   "resultsNotArray" {results: {}} (a truthy value that is no array)     *)
(*   "results"         {results: [row, ...]}                               *)
(* Shapes of a graph-query body:                                           *)
(*   "null"             the body null                                      *)
(*   "noResults"        {}                                                 *)
(*   "noBindings"       {results: {}}                                      *)
(*   "bindingsNotArray" {results: {bindings: {}}}                          *)
(*   "bindings"         {results: {bindings: [binding, ...]}}              *)
(***************************************************************************)
Reply(net, ok, json, shape, rows) ==
  [net |-> net, ok |-> ok, json |-> json, shape |-> shape, rows |-> rows]

\* What a client function returns or throws: threw is TRUE when it throws
\* (its promise rejects); isArray tells an array from any other value; items
\* are the elements of the array.
Returned(isArray, items) == [threw |-> FALSE, isArray |-> isArray, items |-> items]
Thrown                   == [threw |-> TRUE, isArray |-> FALSE, items |-> <<>>]

\* Whether the try block of a client reaches the body: fetch resolved, the
\* status is a success, and the body parses.
BodyReached(reply) == reply.net = "ok" /\ reply.ok /\ reply.json

\* Mutant of executeSPARQLQuery: the failure thrown on instead of caught.
executeSPARQLQueryRethrown(reply) ==
  CASE ~BodyReached(reply)                     -> Thrown
    [] reply.shape \in {"null", "noResults"}   -> Thrown
    [] reply.shape = "bindings"                -> Returned(TRUE, reply.rows)
    [] OTHER                                   -> Returned(FALSE, <<>>)

\* executeSPARQLQuery: data.results.bindings, or [] from the catch block.
executeSPARQLQuery(reply) ==
  CASE ~BodyReached(reply)                     -> Returned(TRUE, <<>>)
    [] reply.shape \in {"null", "noResults"}   -> Returned(TRUE, <<>>)
    [] reply.shape = "bindings"                -> Returned(TRUE, reply.rows)
    [] OTHER                                   -> Returned(FALSE, <<>>)

\* Mutant of searchLOVReply: the failure thrown on instead of caught.
searchLOVReplyRethrown(reply) ==
  CASE ~BodyReached(reply)                     -> Thrown
    [] reply.shape \in {"null", "noResults"}   -> Thrown
    [] reply.shape = "results"                 -> Returned(TRUE, reply.rows)
    [] OTHER                                   -> Returned(FALSE, <<>>)

\* searchLOV after its fetch: data.results || [], or [] from the catch block.
searchLOVReply(reply) ==
  CASE ~BodyReached(reply)                     -> Returned(TRUE, <<>>)
    [] reply.shape \in {"null", "noResults"}   -> Returned(TRUE, <<>>)
    [] reply.shape = "results"                 -> Returned(TRUE, reply.rows)
    [] OTHER                                   -> Returned(FALSE, <<>>)

\* A keyword-search row without a uri, and the property key it is looked up
\* under (obj[undefined] reads the property "undefined").
NoUri == "(none)"
PropertyKey(uri) == IF uri = NoUri THEN "undefined" ELSE uri

\* Boolean(uri)
TruthyUri(uri) == uri # NoUri /\ uri # ""

\* lovResults.map(result => result.uri).filter(Boolean)
RECURSIVE vocabularyUrisOf(_)
vocabularyUrisOf(rows) ==
  IF rows = <<>> THEN <<>>
  ELSE IF TruthyUri(Head(rows).uri)
         THEN <<Head(rows).uri>> \o vocabularyUrisOf(Tail(rows))
         ELSE vocabularyUrisOf(Tail(rows))

\* map with map[key] = value (an assignment to a property of an object).
Assign(map, key, value) ==
  [x \in DOMAIN map \cup {key} |-> IF x = key THEN value ELSE map[x]]

EmptyMap == [x \in {} |-> Undefined]

\* A binding of a graph-query reply: vocab is result.vocab?.value ("" when
\* the variable is unbound), vals maps the other bound variables to their
\* value strings.
BindingValue(binding, var) ==
  IF var \in DOMAIN binding.vals THEN JsStr(binding.vals[var]) ELSE Undefined

Zero == <<"0">>

AdoptionOf(binding) ==
  [reusedByVocabularies  |-> Or(BindingValue(binding, "reusedByVocabs"), JsStr(Zero)),
   reusedByDatasets      |-> Or(BindingValue(binding, "reusedByDatasets"), JsStr(Zero)),
   occurrencesInDatasets |-> Or(BindingValue(binding, "occurrences"), JsStr(Zero))]

DesignOf(binding) ==
  [extends             |-> ParseInt(Or(BindingValue(binding, "extendsCount"), JsStr(Zero))),
   hasEquivalencesWith |-> ParseInt(Or(BindingValue(binding, "hasEquivalencesCount"), JsStr(Zero))),
   reliesOn            |-> ParseInt(Or(BindingValue(binding, "reliesOnCount"), JsStr(Zero))),
   usedBy              |-> ParseInt(Or(BindingValue(binding, "usedByCount"), JsStr(Zero))),
   specializes         |-> ParseInt(Or(BindingValue(binding, "specializesCount"), JsStr(Zero))),
   generalizes         |-> ParseInt(Or(BindingValue(binding, "generalizesCount"), JsStr(Zero)))]

\* results.forEach(result => { if (uri) adoptionMap[uri] = {...} })
RECURSIVE AdoptionMapOf(_, _)
AdoptionMapOf(bindings, adoptionMap) ==
  IF bindings = <<>> THEN adoptionMap
  ELSE AdoptionMapOf(Tail(bindings),
         IF Head(bindings).vocab # ""
           THEN Assign(adoptionMap, Head(bindings).vocab, AdoptionOf(Head(bindings)))
           ELSE adoptionMap)

RECURSIVE DesignMapOf(_, _)
DesignMapOf(bindings, designMap) ==
  IF bindings = <<>> THEN designMap
  ELSE DesignMapOf(Tail(bindings),
         IF Head(bindings).vocab # ""
           THEN Assign(designMap, Head(bindings).vocab, DesignOf(Head(bindings)))
           ELSE designMap)

\* What a metadata fetch settles with: fulfilled with a mapping, or rejected.
Fulfilled(map) == [st |-> "fulfilled", map |-> map]
Rejected       == [st |-> "rejected", map |-> EmptyMap]
Unsettled      == [st |-> "pending", map |-> EmptyMap]

\* getAdoptionConvergenceData from the reply of its query on: forEach of a
\* value that is no array throws a TypeError, which nothing here catches.
getAdoptionConvergenceData(reply) ==
  LET results == executeSPARQLQuery(reply)
  IN  IF results.isArray THEN Fulfilled(AdoptionMapOf(results.items, EmptyMap))
                         ELSE Rejected

getDesignConvergenceData(reply) ==
  LET results == executeSPARQLQuery(reply)
  IN  IF results.isArray THEN Fulfilled(DesignMapOf(results.items, EmptyMap))
                         ELSE Rejected

\* Mutant of DefaultAdoption: the numbers 0 for the strings '0'.
DefaultAdoptionNumbers ==
  [reusedByVocabularies  |-> JsNum(0),
   reusedByDatasets      |-> JsNum(0),
   occurrencesInDatasets |-> JsNum(0)]

DefaultAdoption ==
  [reusedByVocabularies  |-> JsStr(Zero),
   reusedByDatasets      |-> JsStr(Zero),
   occurrencesInDatasets |-> JsStr(Zero)]

DefaultDesign ==
  [extends |-> JsNum(0), hasEquivalencesWith |-> JsNum(0), reliesOn |-> JsNum(0),
   usedBy |-> JsNum(0), specializes |-> JsNum(0), generalizes |-> JsNum(0)]

\* map[result.uri] || fallback (a stored record is an object, hence truthy).
Lookup(map, uri, fallback) ==
  IF PropertyKey(uri) \in DOMAIN map THEN map[PropertyKey(uri)] ELSE fallback

\* One merged record: {...result, adoptionData, designData, connectivityScore}.
MergeRow(result, adoptionData, designData) ==
  LET adoption == Lookup(adoptionData, result.uri, DefaultAdoption)
      design   == Lookup(designData, result.uri, DefaultDesign)
  IN  [uri               |-> result.uri,
       title             |-> result.title,
       adoptionData      |-> adoption,
       designData        |-> design,
       connectivityScore |-> calculateConnectivityScore(adoption, design)]

\* Mutant of Merge: only the rows that have an adoption entry are kept.
MergeMatchedOnly(lovResults, adoptionData, designData) ==
  LET Matched(result) == PropertyKey(result.uri) \in DOMAIN adoptionData
      kept == SelectSeq(lovResults, Matched)
  IN  [p \in DOMAIN kept |-> MergeRow(kept[p], adoptionData, designData)]

\* enhancedResults = lovResults.map(result => ...)
Merge(lovResults, adoptionData, designData) ==
  [p \in DOMAIN lovResults |-> MergeRow(lovResults[p], adoptionData, designData)]

\* The search row a merged record was made from.
RowOf(record) == [uri |-> record.uri, title |-> record.title]

(***************************************************************************)
(* enhancedResults.sort((a, b) => b.connectivityScore - a.connectivityScore) *)
(***************************************************************************)
\* The sign of the comparator: -1 puts a first, 1 puts b first, 0 keeps
\* their order.  A NaN difference (a NaN score, or -Infinity - -Infinity)
\* is taken as 0 by the sort.
Compare(a, b) ==
  LET x == a.connectivityScore
      y == b.connectivityScore
  IN  CASE x.k = "NaN" \/ y.k = "NaN"                 -> 0
        [] x.k = "-Infinity" /\ y.k = "-Infinity"     -> 0
        [] y.k = "-Infinity"                          -> 0 - 1
        [] x.k = "-Infinity"                          -> 1
        [] y.n - x.n < 0                              -> 0 - 1
        [] y.n - x.n > 0                              -> 1
        [] OTHER                                      -> 0

\* Insertion of record after the records of sorted that do not sort after it.
RECURSIVE InsertSorted(_, _)
InsertSorted(sorted, record) ==
  IF sorted = <<>> THEN <<record>>
  ELSE IF Compare(record, Head(sorted)) < 0
         THEN <<record>> \o sorted
         ELSE <<Head(sorted)>> \o InsertSorted(Tail(sorted), record)

RECURSIVE StableSort(_, _)
StableSort(list, sorted) ==
  IF list = <<>> THEN sorted
  ELSE StableSort(Tail(list), InsertSorted(sorted, Head(list)))

\* A comparator is consistent on a list when "compares equal" is transitive
\* with "sorts before" over its elements; only then does the language fix
\* the result of sort (the stable sort).
ConsistentComparator(list) ==
  \A p, q, r \in DOMAIN list :
    /\ (Compare(list[p], list[q]) = 0 /\ Compare(list[q], list[r]) = 0)
         => Compare(list[p], list[r]) = 0
    /\ (Compare(list[p], list[q]) = 0 /\ Compare(list[q], list[r]) < 0)
         => Compare(list[p], list[r]) < 0
    /\ (Compare(list[p], list[q]) < 0 /\ Compare(list[q], list[r]) = 0)
         => Compare(list[p], list[r]) < 0

OrdersOf(list) ==
  { [p \in DOMAIN list |-> list[f[p]]] :
      f \in { g \in [DOMAIN list -> DOMAIN list] :
                \A p, q \in DOMAIN list : p # q => g[p] # g[q] } }

\* The lists sort may leave: the stable sort for a consistent comparator,
\* and an order the engine chooses (any permutation) otherwise.
SortOutcomes(list) ==
  IF ConsistentComparator(list) THEN {StableSort(list, <<>>)}
                                ELSE OrdersOf(list)

(***************************************************************************)
(* The state.                                                              *)
(***************************************************************************)
\* Invocations of performSearch are numbered in the order they start.
MaxInv == 2
Invs   == 1 .. MaxInv

Facets == {"adoption", "design"}

Null                == "null"
SearchFailedMessage == "Search failed. Please try again."

VARIABLES
  loading,        \* useState(false)
  searchResults,  \* useState([])
  error,          \* useState(null)
  pc,             \* per invocation: "idle" (not called yet), "searching" (awaiting
                  \* searchLOV), "metadata" (awaiting Promise.all), "done"
  term,           \* per invocation: the argument of performSearch
  lovResults,     \* per invocation: the rows searchLOV returned
  fetches,        \* per invocation: its fetch calls, "none" (not made),
                  \* "pending" or "settled", for search, adoption and design
  metadata,       \* per invocation: the promises of the two metadata
                  \* functions, by facet
  settled,        \* per invocation: the facets in the order their promises settled
  outcome,        \* per invocation: how it ended, "none" while it has not
  published,      \* per invocation: the list it gave to setSearchResults
  last            \* the event of the latest block: the call or the reply

vars == <<loading, searchResults, error, pc, term, lovResults, fetches,
          metadata, settled, outcome, published, last>>

\* What a reply is, read off the reply alone: the fetch rejected
\* ("transport"), the status is no success ("status"), the body is no JSON
\* ("unparsable"), the JSON lacks the array under arrayShape ("malformed"),
\* or it holds the array ("rows", with its length).
ReplyKind(reply, arrayShape) ==
  CASE reply.net = "fail"        -> "transport"
    [] ~reply.ok                 -> "status"
    [] ~reply.json               -> "unparsable"
    [] reply.shape # arrayShape  -> "malformed"
    [] OTHER                     -> "rows"

Event(op, i, kind, n) == [op |-> op, inv |-> i, kind |-> kind, n |-> n]

ReplyEvent(op, i, reply, arrayShape) ==
  Event(op, i, ReplyKind(reply, arrayShape),
        IF ReplyKind(reply, arrayShape) = "rows" THEN Len(reply.rows) ELSE 0)

NoFetches == [search |-> "none", adoption |-> "none", design |-> "none"]

Init ==
  /\ loading = FALSE
  /\ searchResults = <<>>
  /\ error = Null
  /\ pc = [i \in Invs |-> "idle"]
  /\ term = [i \in Invs |-> <<>>]
  /\ lovResults = [i \in Invs |-> <<>>]
  /\ fetches = [i \in Invs |-> NoFetches]
  /\ metadata = [i \in Invs |-> [f \in Facets |-> Unsettled]]
  /\ settled = [i \in Invs |-> <<>>]
  /\ outcome = [i \in Invs |-> "none"]
  /\ published = [i \in Invs |-> <<>>]
  /\ last = Event("init", 0, "none", 0)

(***************************************************************************)
(* performSearch, block by block.                                          *)
(***************************************************************************)
\* Mutant of IsEmptyTerm: the test without trim().
IsEmptyTermNoTrim(searchTerm) == searchTerm = <<>>

\* !term.trim()
IsEmptyTerm(searchTerm) == Trim(searchTerm) = <<>>

\* Mutant of MetadataFetches: the two functions awaited one after the other,
\* so that only the first has run when performSearch suspends.
MetadataFetchesSequential(vocabularyUris) ==
  IF Len(vocabularyUris) = 0 THEN {} ELSE {"adoption"}

\* Mutant of MetadataFetches: the guard for an empty uri list left out.
MetadataFetchesUnguarded(vocabularyUris) == Facets

\* The fetch calls made by getAdoptionConvergenceData and
\* getDesignConvergenceData when Promise.all([...]) is built: each returns {}
\* at once for an empty uri list, and otherwise runs up to its fetch.
MetadataFetches(vocabularyUris) ==
  IF Len(vocabularyUris) = 0 THEN {} ELSE Facets

\* Mutant of PromiseAllValues: the values in the order the promises settled.
PromiseAllValuesAsSettled(order, promises) ==
  IF Len(order) = 2 THEN <<promises[order[1]].map, promises[order[2]].map>>
                    ELSE <<promises["adoption"].map, promises["design"].map>>

\* const [adoptionData, designData] = await Promise.all([...]): the values
\* are in the order of the array given to Promise.all.
PromiseAllValues(order, promises) ==
  <<promises["adoption"].map, promises["design"].map>>

\* Mutant of HasNoRows: the early return for an empty list left out.
HasNoRowsNever(lov) == FALSE

\* lovResults.length === 0, for what searchLOV returned (a value that is no
\* array has no length here).
HasNoRows(lov) == lov.isArray /\ Len(lov.items) = 0

\* Mutant of Fail: the catch block also clears the result list.
FailClearsResults(i) ==
  /\ error' = SearchFailedMessage
  /\ loading' = FALSE
  /\ pc' = [pc EXCEPT ![i] = "done"]
  /\ outcome' = [outcome EXCEPT ![i] = "failed"]
  /\ searchResults' = <<>>
  /\ UNCHANGED published

\* Mutant of Fail: the finally block left out.
FailKeepsLoading(i) ==
  /\ error' = SearchFailedMessage
  /\ pc' = [pc EXCEPT ![i] = "done"]
  /\ outcome' = [outcome EXCEPT ![i] = "failed"]
  /\ UNCHANGED <<loading, searchResults, published>>

\* The catch and finally blocks.
Fail(i) ==
  /\ error' = SearchFailedMessage
  /\ loading' = FALSE
  /\ pc' = [pc EXCEPT ![i] = "done"]
  /\ outcome' = [outcome EXCEPT ![i] = "failed"]
  /\ UNCHANGED <<searchResults, published>>

\* Mutant of MergeSortPublish: an invocation that a later one has superseded
\* does not write the result list.
MergeSortPublishUnlessSuperseded(i, rows, values) ==
  \E sorted \in SortOutcomes(Merge(rows, values[1], values[2])) :
    /\ searchResults' = IF \E j \in Invs : j > i /\ pc[j] # "idle"
                          THEN searchResults ELSE sorted
    /\ published' = [published EXCEPT ![i] = sorted]
    /\ loading' = FALSE
    /\ pc' = [pc EXCEPT ![i] = "done"]
    /\ outcome' = [outcome EXCEPT ![i] = "published"]
    /\ UNCHANGED error

\* Steps 3 and 4 of the try block, then finally.
MergeSortPublish(i, rows, values) ==
  \E sorted \in SortOutcomes(Merge(rows, values[1], values[2])) :
    /\ searchResults' = sorted
    /\ published' = [published EXCEPT ![i] = sorted]
    /\ loading' = FALSE
    /\ pc' = [pc EXCEPT ![i] = "done"]
    /\ outcome' = [outcome EXCEPT ![i] = "published"]
    /\ UNCHANGED error

\* Mutant of PerformSearch: setError(null) left out.
PerformSearchKeepsError(i, searchTerm) ==
  /\ pc[i] = "idle"
  /\ IF i = 1 THEN TRUE ELSE pc[i - 1] # "idle"
  /\ term' = [term EXCEPT ![i] = searchTerm]
  /\ last' = Event("performSearch", i, "call", 0)
  /\ IF IsEmptyTerm(searchTerm)
       THEN /\ searchResults' = <<>>
            /\ pc' = [pc EXCEPT ![i] = "done"]
            /\ outcome' = [outcome EXCEPT ![i] = "cleared"]
            /\ UNCHANGED <<loading, error, fetches>>
       ELSE /\ loading' = TRUE
            /\ pc' = [pc EXCEPT ![i] = "searching"]
            /\ fetches' = [fetches EXCEPT ![i].search = "pending"]
            /\ UNCHANGED <<searchResults, outcome, error>>
  /\ UNCHANGED <<lovResults, metadata, settled, published>>

\* Mutant of PerformSearch: the branch of the blank term also resets error
\* and loading.
PerformSearchBlankResets(i, searchTerm) ==
  /\ pc[i] = "idle"
  /\ IF i = 1 THEN TRUE ELSE pc[i - 1] # "idle"
  /\ term' = [term EXCEPT ![i] = searchTerm]
  /\ last' = Event("performSearch", i, "call", 0)
  /\ IF IsEmptyTerm(searchTerm)
       THEN /\ searchResults' = <<>>
            /\ loading' = FALSE
            /\ error' = Null
            /\ pc' = [pc EXCEPT ![i] = "done"]
            /\ outcome' = [outcome EXCEPT ![i] = "cleared"]
            /\ UNCHANGED fetches
       ELSE /\ loading' = TRUE
            /\ error' = Null
            /\ pc' = [pc EXCEPT ![i] = "searching"]
            /\ fetches' = [fetches EXCEPT ![i].search = "pending"]
            /\ UNCHANGED <<searchResults, outcome>>
  /\ UNCHANGED <<lovResults, metadata, settled, published>>

\* performSearch(term) up to its first await.
PerformSearch(i, searchTerm) ==
  /\ pc[i] = "idle"
  /\ IF i = 1 THEN TRUE ELSE pc[i - 1] # "idle"
  /\ term' = [term EXCEPT ![i] = searchTerm]
  /\ last' = Event("performSearch", i, "call", 0)
  /\ IF IsEmptyTerm(searchTerm)
       THEN /\ searchResults' = <<>>
            /\ pc' = [pc EXCEPT ![i] = "done"]
            /\ outcome' = [outcome EXCEPT ![i] = "cleared"]
            /\ UNCHANGED <<loading, error, fetches>>
       ELSE /\ loading' = TRUE
            /\ error' = Null
            /\ pc' = [pc EXCEPT ![i] = "searching"]
            /\ fetches' = [fetches EXCEPT ![i].search = "pending"]
            /\ UNCHANGED <<searchResults, outcome>>
  /\ UNCHANGED <<lovResults, metadata, settled, published>>

\* The keyword-search fetch settles with reply: the rest of searchLOV, then
\* performSearch up to Promise.all (or to its end).
SearchSettles(i, reply) ==
  /\ pc[i] = "searching"
  /\ fetches[i].search = "pending"
  /\ last' = ReplyEvent("search", i, reply, "results")
  /\ LET lov  == searchLOVReply(reply)
         uris == vocabularyUrisOf(lov.items)
     IN  /\ lovResults' = [lovResults EXCEPT ![i] = lov.items]
         /\ IF HasNoRows(lov)
              THEN /\ searchResults' = <<>>
                   /\ loading' = FALSE
                   /\ pc' = [pc EXCEPT ![i] = "done"]
                   /\ outcome' = [outcome EXCEPT ![i] = "empty"]
                   /\ fetches' = [fetches EXCEPT ![i].search = "settled"]
                   /\ UNCHANGED <<error, metadata, published>>
              ELSE IF ~lov.isArray
                THEN /\ Fail(i)
                     /\ fetches' = [fetches EXCEPT ![i].search = "settled"]
                     /\ UNCHANGED metadata
                ELSE IF MetadataFetches(uris) = {}
                  THEN /\ metadata' = [metadata EXCEPT ![i] =
                                         [f \in Facets |-> Fulfilled(EmptyMap)]]
                       /\ fetches' = [fetches EXCEPT ![i].search = "settled"]
                       /\ MergeSortPublish(i, lov.items,
                            PromiseAllValues(<<>>, metadata'[i]))
                  ELSE /\ fetches' = [fetches EXCEPT ![i] =
                            [r \in DOMAIN NoFetches |->
                               IF r \in MetadataFetches(uris) THEN "pending"
                               ELSE IF r = "search" THEN "settled"
                               ELSE "none"]]
                       /\ pc' = [pc EXCEPT ![i] = "metadata"]
                       /\ UNCHANGED <<loading, searchResults, error, metadata,
                                      outcome, published>>
  /\ UNCHANGED <<term, settled>>

\* The promise a metadata function returns for the reply of its fetch.
MetadataOf(facet, reply) ==
  IF facet = "adoption" THEN getAdoptionConvergenceData(reply)
                        ELSE getDesignConvergenceData(reply)

\* Mutant of MetadataSettles: a query that failed at the transport level is
\* issued again.
MetadataSettlesRetried(i, facet, reply) ==
  /\ fetches[i][facet] = "pending"
  /\ last' = ReplyEvent(facet, i, reply, "bindings")
  /\ fetches' = [fetches EXCEPT ![i][facet] =
                   IF ReplyKind(reply, "bindings") \in {"transport", "status"}
                     THEN "pending" ELSE "settled"]
  /\ metadata' = [metadata EXCEPT ![i][facet] = MetadataOf(facet, reply)]
  /\ settled' = [settled EXCEPT ![i] = Append(@, facet)]
  /\ IF pc[i] # "metadata"
       THEN UNCHANGED <<loading, searchResults, error, pc, outcome, published>>
       ELSE IF metadata'[i][facet].st = "rejected"
         THEN Fail(i)
         ELSE IF \A f \in Facets : metadata'[i][f].st = "fulfilled"
           THEN MergeSortPublish(i, lovResults[i],
                  PromiseAllValues(settled'[i], metadata'[i]))
           ELSE UNCHANGED <<loading, searchResults, error, pc, outcome, published>>
  /\ UNCHANGED <<term, lovResults>>

\* The fetch of one metadata query settles with reply: the rest of
\* executeSPARQLQuery and of the metadata function, then what Promise.all
\* does with it: it rejects as soon as one promise rejects, and fulfils
\* when both are fulfilled.
MetadataSettles(i, facet, reply) ==
  /\ fetches[i][facet] = "pending"
  /\ last' = ReplyEvent(facet, i, reply, "bindings")
  /\ fetches' = [fetches EXCEPT ![i][facet] = "settled"]
  /\ metadata' = [metadata EXCEPT ![i][facet] = MetadataOf(facet, reply)]
  /\ settled' = [settled EXCEPT ![i] = Append(@, facet)]
  /\ IF pc[i] # "metadata"
       THEN UNCHANGED <<loading, searchResults, error, pc, outcome, published>>
       ELSE IF metadata'[i][facet].st = "rejected"
         THEN Fail(i)
         ELSE IF \A f \in Facets : metadata'[i][f].st = "fulfilled"
           THEN MergeSortPublish(i, lovResults[i],
                  PromiseAllValues(settled'[i], metadata'[i]))
           ELSE UNCHANGED <<loading, searchResults, error, pc, outcome, published>>
  /\ UNCHANGED <<term, lovResults>>

(***************************************************************************)
(* The environment: what the user types and what the two endpoints reply.  *)
(***************************************************************************)
NetFail   == Reply("fail", FALSE, FALSE, "null", <<>>)
BadStatus == Reply("ok", FALSE, FALSE, "null", <<>>)
BadJson   == Reply("ok", TRUE, FALSE, "null", <<>>)
Body(shape, rows) == Reply("ok", TRUE, TRUE, shape, rows)

Row(uri, title) == [uri |-> uri, title |-> title]
RowA    == Row("A", "a")
RowB    == Row("B", "b")
RowC    == Row("C", "c")
RowNone == Row(NoUri, "n")

Binding(vocab, vals) == [vocab |-> vocab, vals |-> vals]

\* The same count for each of the six relationships.
AllSix(count) ==
  [extendsCount |-> count, hasEquivalencesCount |-> count, reliesOnCount |-> count,
   usedByCount |-> count, specializesCount |-> count, generalizesCount |-> count]

Terms == {<<>>, <<" ">>, <<" ", "d", "c", " ">>}

SearchReplies ==
  { NetFail,
    Body("resultsNotArray", <<>>),
    Body("results", <<>>),
    Body("results", <<RowNone>>),
    Body("results", <<RowB, RowA>>) }

AdoptionReplies ==
  { BadStatus,
    Body("noBindings", <<>>),
    Body("bindings", <<Binding("A", [reusedByVocabs |-> <<"2">>])>>) }

DesignReplies ==
  { NetFail,
    Body("bindingsNotArray", <<>>),
    Body("bindings", <<Binding("A", [extendsCount |-> <<"1">>])>>) }

Next ==
  \E i \in Invs :
    \/ \E searchTerm \in Terms : PerformSearch(i, searchTerm)
    \/ \E reply \in SearchReplies : SearchSettles(i, reply)
    \/ \E reply \in AdoptionReplies : MetadataSettles(i, "adoption", reply)
    \/ \E reply \in DesignReplies : MetadataSettles(i, "design", reply)

\* Overlapping invocations over a small set of replies.
Spec == Init /\ [][Next]_vars

(***************************************************************************)
(* One invocation over every list of at most MaxRows rows and a catalogue  *)
(* of metadata replies that covers the cases of the merge, the score and   *)
(* the sort.                                                               *)
(***************************************************************************)
MaxRows == 3

FullRows == {RowA, RowB, RowC, RowNone}

RowLists == UNION { [1 .. n -> FullRows] : n \in 1 .. MaxRows }

\* The replies that hold no array of rows, for either endpoint.
FailedReplies ==
  {NetFail, BadStatus, BadJson, Body("null", <<>>), Body("noResults", <<>>)}

FullSearchReplies ==
  FailedReplies \cup
  { Body("resultsNotArray", <<>>), Body("results", <<>>) } \cup
  { Body("results", rows) : rows \in RowLists }

FullAdoptionReplies ==
  FailedReplies \cup
  { Body("noBindings", <<>>),
    Body("bindingsNotArray", <<>>),
    Body("bindings", <<>>),
    Body("bindings", <<Binding("A", [reusedByVocabs |-> <<"2">>])>>),
    Body("bindings", <<Binding("A", [reusedByVocabs |-> <<"2">>]),
                       Binding("B", [reusedByVocabs |-> <<"1", "9">>])>>),
    Body("bindings", <<Binding("A", [reusedByVocabs |-> <<"2">>]),
                       Binding("B", [reusedByDatasets |-> <<"2">>])>>),
    Body("bindings", <<Binding("A", [reusedByVocabs |-> <<"-", "5">>]),
                       Binding("B", [reusedByVocabs |-> <<"1", "9">>])>>),
    Body("bindings", <<Binding("B", [reusedByDatasets |-> <<"-", "1">>])>>),
    Body("bindings", <<Binding("B", [occurrences |-> <<"-", "5", "0", "0">>]),
                       Binding("C", [occurrences |-> <<"1", "0", "0", "0">>])>>),
    Body("bindings", <<Binding("undefined", [reusedByVocabs |-> <<"3">>])>>),
    Body("bindings", <<Binding("B", [reusedByVocabs |-> <<"2">>,
                                     occurrences |-> <<"a", "b", "c">>]),
                       Binding("C", [reusedByDatasets |-> <<"x", "1">>])>>),
    Body("bindings", <<Binding("Z", [reusedByVocabs |-> <<"7">>]),
                       Binding("", [reusedByVocabs |-> <<"7">>])>>) }

FullDesignReplies ==
  FailedReplies \cup
  { Body("noBindings", <<>>),
    Body("bindingsNotArray", <<>>),
    Body("bindings", <<>>),
    Body("bindings", <<Binding("A", [extendsCount |-> <<"1">>,
                                     hasEquivalencesCount |-> <<"1">>,
                                     reliesOnCount |-> <<"1">>])>>),
    Body("bindings", <<Binding("A", AllSix(<<"9", "9">>))>>),
    Body("bindings", <<Binding("A", AllSix(<<"9", "9">>)),
                       Binding("B", AllSix(<<"9", "9">>))>>),
    Body("bindings", <<Binding("B", [extendsCount |-> <<"a", "b", "c">>])>>),
    Body("bindings", <<Binding("C", [usedByCount |-> <<"-", "5">>])>>),
    Body("bindings", <<Binding("undefined", [generalizesCount |-> <<"6">>])>>) }

NextSingle ==
  \/ \E searchTerm \in Terms : PerformSearch(1, searchTerm)
  \/ \E reply \in FullSearchReplies : SearchSettles(1, reply)
  \/ \E reply \in FullAdoptionReplies : MetadataSettles(1, "adoption", reply)
  \/ \E reply \in FullDesignReplies : MetadataSettles(1, "design", reply)

SpecSingle == Init /\ [][NextSingle]_vars

(***************************************************************************)
(* Properties.                                                             *)
(***************************************************************************)
\* A term that is empty or holds white space only, read off its characters.
IsBlank(searchTerm) == \A p \in DOMAIN searchTerm : searchTerm[p] \in WhiteSpace

\* The latest block was the call of invocation i.
JustCalled(i) == last.op = "performSearch" /\ last.inv = i

\* The latest block was the reply to the fetch op of invocation i.
JustReplied(i, op) == last.op = op /\ last.inv = i

\* C1: an invocation with an empty or white-space-only term leaves the result
\* list empty when it returns, whatever the state it started from, and never
\* makes a fetch call: not the keyword search, not a graph query.
C1_BlankTermClearsWithoutNetwork ==
  \A i \in Invs :
    /\ (pc[i] # "idle" /\ IsBlank(term[i]))
         => (pc[i] = "done" /\ outcome[i] = "cleared" /\ fetches[i] = NoFetches)
    /\ (JustCalled(i) /\ IsBlank(term[i])) => searchResults = <<>>

\* A white-space-only call has just emptied a list that an earlier invocation
\* had published.
C1_Witness ==
  \E i, j \in Invs :
    /\ JustCalled(i) /\ term[i] = <<" ">>
    /\ outcome[j] = "published" /\ published[j] # <<>>
    /\ searchResults = <<>>

\* C2: when the keyword search of an invocation resolves with an array of
\* zero rows, the invocation ends there with an empty result list, and it
\* never calls a metadata function nor issues a graph query.
C2_ZeroRowsEndsEmptyWithoutGraphQueries ==
  \A i \in Invs :
    /\ (JustReplied(i, "search") /\ last.kind = "rows" /\ last.n = 0)
         => (pc[i] = "done" /\ outcome[i] = "empty" /\ searchResults = <<>>)
    /\ outcome[i] = "empty"
         => /\ fetches[i].adoption = "none" /\ fetches[i].design = "none"
            /\ \A f \in Facets : metadata[i][f].st = "pending"

\* A search with zero rows has just emptied a published list.
C2_Witness ==
  \E i, j \in Invs :
    /\ JustReplied(i, "search") /\ last.kind = "rows" /\ last.n = 0
    /\ outcome[j] = "published" /\ published[j] # <<>>
    /\ searchResults = <<>>

\* C3: in no state has one metadata fetch of an invocation settled while the
\* other has not been made, and an invocation that awaits its metadata has
\* made both.
C3_BothQueriesIssuedBeforeEitherResolves ==
  \A i \in Invs :
    /\ \A f, g \in Facets : fetches[i][f] = "settled" => fetches[i][g] # "none"
    /\ pc[i] = "metadata" => \A f \in Facets : fetches[i][f] # "none"

\* The design query has settled while the adoption query is still pending.
C3_Witness ==
  \E i \in Invs :
    /\ pc[i] = "metadata"
    /\ fetches[i].design = "settled" /\ fetches[i].adoption = "pending"

\* The two mappings an invocation merged.
MapsOf(i) == <<metadata[i]["adoption"].map, metadata[i]["design"].map>>

\* C4: an invocation publishes only once both of its metadata promises are
\* fulfilled and none of its fetches is pending, and two invocations with
\* the same rows and the same two mappings publish the same list, whichever
\* of their metadata queries settled first.
C4_PublishAfterBothWhateverTheOrder ==
  \A i \in Invs :
    outcome[i] = "published" =>
      /\ \A f \in Facets : metadata[i][f].st = "fulfilled" /\ fetches[i][f] # "pending"
      /\ \A j \in Invs :
           (outcome[j] = "published" /\ lovResults[j] = lovResults[i]
              /\ MapsOf(j) = MapsOf(i))
             => published[j] = published[i]

\* Two invocations published from the same rows and mappings, one after
\* adoption then design settled, the other after design then adoption.
C4_Witness ==
  \E i, j \in Invs :
    /\ outcome[i] = "published" /\ outcome[j] = "published"
    /\ settled[i] = <<"adoption", "design">> /\ settled[j] = <<"design", "adoption">>
    /\ lovResults[i] = lovResults[j] /\ MapsOf(i) = MapsOf(j)
    /\ "A" \in DOMAIN MapsOf(i)[1] /\ "A" \in DOMAIN MapsOf(i)[2]
    /\ published[i] = published[j] /\ Len(published[i]) = 2

\* The one-to-one maps from the positions of a list onto themselves.
Bijections(list) ==
  { f \in [DOMAIN list -> DOMAIN list] :
      \A p, q \in DOMAIN list : p # q => f[p] # f[q] }

\* record carries the uri and the title of row.
FromRow(record, row) == record.uri = row.uri /\ record.title = row.title

\* Both metadata promises of invocation i are fulfilled.
BothFulfilled(i) == \A f \in Facets : metadata[i][f].st = "fulfilled"

\* C5: the merge gives one record per search row, at the position of the
\* row, whatever uris the mappings hold besides; the published list is a
\* permutation of the search rows.
C5_OneRecordPerRow ==
  \A i \in Invs :
    /\ BothFulfilled(i) =>
         LET merged == Merge(lovResults[i], MapsOf(i)[1], MapsOf(i)[2])
         IN  /\ Len(merged) = Len(lovResults[i])
             /\ \A p \in DOMAIN merged : FromRow(merged[p], lovResults[i][p])
    /\ outcome[i] = "published" =>
         /\ Len(published[i]) = Len(lovResults[i])
         /\ \E f \in Bijections(published[i]) :
              \A p \in DOMAIN published[i] : FromRow(published[i][p], lovResults[i][f[p]])

\* A published list of three rows in another order than the search rows,
\* one row without any metadata, and a mapping with a uri that no row has.
C5_Witness ==
  \E i \in Invs :
    /\ outcome[i] = "published" /\ Len(lovResults[i]) = 3
    /\ \E p \in DOMAIN published[i] : ~FromRow(published[i][p], lovResults[i][p])
    /\ "Z" \in DOMAIN MapsOf(i)[1]
    /\ \E p \in DOMAIN lovResults[i] :
         /\ lovResults[i][p].uri \notin DOMAIN MapsOf(i)[1]
         /\ lovResults[i][p].uri \notin DOMAIN MapsOf(i)[2]

ZeroString == JsStr(<<"0">>)

\* C6: a published record whose row has a uri that neither mapping holds
\* carries "0" for the three adoption fields, 0 for the six design counts
\* and the score 0; and an invocation whose two mappings arrived publishes
\* (a missing metadata row is no error).
C6_AbsentMetadataGivesDefaults ==
  \A i \in Invs :
    /\ outcome[i] = "published" =>
         \A p \in DOMAIN published[i] :
           LET record == published[i][p]
           IN  (/\ record.uri # NoUri
                /\ record.uri \notin DOMAIN MapsOf(i)[1]
                /\ record.uri \notin DOMAIN MapsOf(i)[2])
               => /\ record.adoptionData =
                       [reusedByVocabularies |-> ZeroString,
                        reusedByDatasets |-> ZeroString,
                        occurrencesInDatasets |-> ZeroString]
                  /\ record.designData =
                       [extends |-> JsNum(0), hasEquivalencesWith |-> JsNum(0),
                        reliesOn |-> JsNum(0), usedBy |-> JsNum(0),
                        specializes |-> JsNum(0), generalizes |-> JsNum(0)]
                  /\ record.connectivityScore = JsNum(0)
    /\ BothFulfilled(i) => outcome[i] = "published"

\* Row C is published with the defaults beside a row A that has metadata in
\* both mappings.
C6_Witness ==
  \E i \in Invs :
    /\ outcome[i] = "published"
    /\ "A" \in DOMAIN MapsOf(i)[1] /\ "A" \in DOMAIN MapsOf(i)[2]
    /\ "C" \notin DOMAIN MapsOf(i)[1] /\ "C" \notin DOMAIN MapsOf(i)[2]
    /\ \E p, q \in DOMAIN published[i] :
         /\ published[i][p].uri = "C" /\ published[i][p].connectivityScore = JsNum(0)
         /\ published[i][q].uri = "A" /\ published[i][q].connectivityScore # JsNum(0)

\* x < y and x = y on scores.  NaN is neither less than nor equal to
\* anything; -Infinity is below every number.
ScoreLess(x, y) ==
  CASE x.k = "NaN" \/ y.k = "NaN" -> FALSE
    [] x.k = "-Infinity"          -> y.k = "number"
    [] y.k = "-Infinity"          -> FALSE
    [] OTHER                      -> x.n < y.n

ScoreEqual(x, y) == x.k # "NaN" /\ x = y

\* list has no record before one of a greater score.
NonIncreasing(list) ==
  \A p, q \in DOMAIN list :
    p < q => ~ScoreLess(list[p].connectivityScore, list[q].connectivityScore)

\* The records of list with equal scores are in the order of their rows.
TiesInRowOrder(list, rows) ==
  \E f \in Bijections(list) :
    /\ \A p \in DOMAIN list : FromRow(list[p], rows[f[p]])
    /\ \A p, q \in DOMAIN list :
         (p < q /\ ScoreEqual(list[p].connectivityScore, list[q].connectivityScore))
           => f[p] < f[q]

\* C7: a published list is in non-increasing order of connectivityScore, and
\* records of equal score are in the order of their search rows.
C7_PublishedSortedAndStable ==
  \A i \in Invs :
    outcome[i] = "published" =>
      /\ NonIncreasing(published[i])
      /\ Len(published[i]) = Len(lovResults[i])
      /\ TiesInRowOrder(published[i], lovResults[i])

\* Every score of list is a number.
AllNumbers(list) == \A p \in DOMAIN list : list[p].connectivityScore.k = "number"

\* What does hold of the sort: C7 for the lists without a NaN score.
SortedAndStableWhenNoNaN ==
  \A i \in Invs :
    (outcome[i] = "published"
       /\ \A p \in DOMAIN published[i] : published[i][p].connectivityScore.k # "NaN")
      => /\ NonIncreasing(published[i])
         /\ TiesInRowOrder(published[i], lovResults[i])

\* 0.6 * designConvergence + 0.4 * adoptionConvergence of a record, in the
\* unit of the scores, from the metrics the record carries.
CompositeOf(record) ==
  Plus(Times(6, DesignConvergence(record.designData)),
       Times(4, AdoptionConvergence(record.adoptionData)))

BelowNormalizer(x) == x.k = "number" /\ x.n < 15 * 10 * 10^6

\* The uris of list, in order.
UrisOf(list) == [p \in DOMAIN list |-> list[p].uri]

\* Rows A, B, C of the end-to-end scenario: A with design about 2.0 and
\* adoption about 1.0, B with adoption about 3.0 only, C without metadata.
IsScenario(i) ==
  /\ \E f \in Bijections(lovResults[i]) :
       [p \in DOMAIN lovResults[i] |-> lovResults[i][f[p]]] = <<RowA, RowB, RowC>>
  /\ BothFulfilled(i)
  /\ DOMAIN MapsOf(i)[1] = {"A", "B"}
  /\ AdoptionConvergence(MapsOf(i)[1]["A"]) = JsNum(1098612)
  /\ AdoptionConvergence(MapsOf(i)[1]["B"]) = JsNum(2995732)
  /\ DOMAIN MapsOf(i)[2] = {"A"}
  /\ DesignConvergence(MapsOf(i)[2]["A"]) = JsNum(2079441)

\* C8: of two published records with composites below the normalizer, the
\* one with the greater composite comes first; rows A, B, C of the scenario
\* are published in the order A, B, C for every order of the search rows.
C8_RankedByComposite ==
  \A i \in Invs :
    outcome[i] = "published" =>
      /\ \A p, q \in DOMAIN published[i] :
           (/\ BelowNormalizer(CompositeOf(published[i][p]))
            /\ BelowNormalizer(CompositeOf(published[i][q]))
            /\ CompositeOf(published[i][p]).n > CompositeOf(published[i][q]).n)
             => p < q
      /\ IsScenario(i) => UrisOf(published[i]) = <<"A", "B", "C">>

\* What does hold of the ranking: C8 for the lists whose scores are numbers.
RankedByCompositeWhenNumbers ==
  \A i \in Invs :
    (outcome[i] = "published" /\ AllNumbers(published[i])) =>
      /\ \A p, q \in DOMAIN published[i] :
           (/\ BelowNormalizer(CompositeOf(published[i][p]))
            /\ BelowNormalizer(CompositeOf(published[i][q]))
            /\ CompositeOf(published[i][p]).n > CompositeOf(published[i][q]).n)
             => p < q
      /\ IsScenario(i) => UrisOf(published[i]) = <<"A", "B", "C">>

\* The scenario published from the search order C, B, A.
ScenarioReached ==
  \E i \in Invs :
    /\ outcome[i] = "published" /\ IsScenario(i)
    /\ lovResults[i] = <<RowC, RowB, RowA>>
    /\ UrisOf(published[i]) = <<"A", "B", "C">>

\* C9: when the keyword search fails (the fetch rejects or the status is no
\* success), searchLOV returns an empty list and the invocation ends as one
\* with zero hits: empty results, error null, loading false, no graph query.
C9_FailedSearchDegradesToEmpty ==
  \A i \in Invs :
    (JustReplied(i, "search") /\ last.kind \in {"transport", "status"})
      => /\ lovResults[i] = <<>>
         /\ pc[i] = "done" /\ outcome[i] = "empty"
         /\ searchResults = <<>> /\ error = Null /\ loading = FALSE
         /\ fetches[i].adoption = "none" /\ fetches[i].design = "none"

\* The keyword search has just failed with a status that is no success.
C9_Witness ==
  \E i \in Invs :
    /\ JustReplied(i, "search") /\ last.kind = "status"
    /\ outcome[i] = "empty" /\ error = Null /\ ~loading

\* C10: a body without the expected array counts as zero rows: the search
\* gives an empty list and ends as with zero hits, a graph query gives an
\* empty mapping, and the invocation does not fail.
C10_MalformedBodyDegradesToEmpty ==
  \A i \in Invs :
    (last.inv = i /\ last.kind = "malformed") =>
      /\ outcome[i] # "failed"
      /\ last.op = "search" => (lovResults[i] = <<>> /\ outcome[i] = "empty")
      /\ last.op \in Facets => metadata[i][last.op] = Fulfilled(EmptyMap)

\* C11: the step in which an invocation fails sets error to the fixed
\* message and loading to false, ends the invocation (nothing escapes: it is
\* done, as a failed one) and leaves the result list as it was.
C11_FailureCaughtAtBoundary ==
  [][\A i \in Invs :
       (outcome[i] # "failed" /\ outcome'[i] = "failed")
         => /\ error' = SearchFailedMessage
            /\ loading' = FALSE
            /\ pc[i] \in {"searching", "metadata"} /\ pc'[i] = "done"
            /\ searchResults' = searchResults
            /\ published'[i] = <<>>]_vars

\* An invocation has just failed on a malformed body while the list of an
\* earlier publication is on display, and the list is still there.
C11_Witness ==
  \E i \in Invs :
    /\ last.inv = i /\ last.kind = "malformed" /\ outcome[i] = "failed"
    /\ error = SearchFailedMessage /\ ~loading
    /\ searchResults # <<>>
    /\ \E j \in Invs : j # i /\ outcome[j] = "published" /\ searchResults = published[j]

(***************************************************************************)
(* One invocation whose search gives the single row A and whose two graph  *)
(* queries answer with every combination of valid counts for A: the        *)
(* scoring function over its valid inputs, as the pipeline applies it.     *)
(***************************************************************************)
\* The number of values each adoption field takes, and each design count.
MaxLevel       == 3
MaxDesignLevel == 2

\* Decimal strings of non-negative integers, as the endpoint sends counts.
CountLevels ==
  << <<"0">>, <<"1">>, <<"9", "9">>, <<"1", "9">>, <<"2">>, <<"7">> >>

OccurrenceLevels ==
  << <<"0">>, <<"1", "0", "0", "0">>, <<"9", "9", "0", "0", "0">>,
     <<"5", "0", "0">>, <<"3", "0", "0", "0">>, <<"7", "0", "0", "0">> >>

DesignLevels ==
  << <<"0">>, <<"9", "9">>, <<"1">>, <<"1", "9">>, <<"3">>, <<"7">> >>

Levels == 1 .. (IF MaxLevel < Len(CountLevels) THEN MaxLevel ELSE Len(CountLevels))

DLevels ==
  1 .. (IF MaxDesignLevel < Len(DesignLevels) THEN MaxDesignLevel ELSE Len(DesignLevels))

ScoreTerm == <<" ", "d", "c", " ">>

ScoreSearchReplies == { Body("results", <<RowA>>) }

ScoreAdoptionReplies ==
  { Body("bindings", <<Binding("A", [reusedByVocabs   |-> CountLevels[a],
                                     reusedByDatasets |-> CountLevels[b],
                                     occurrences      |-> OccurrenceLevels[c]])>>) :
      a \in Levels, b \in Levels, c \in Levels }

ScoreDesignReplies ==
  { Body("bindings", <<Binding("A", [extendsCount         |-> DesignLevels[e],
                                     hasEquivalencesCount |-> DesignLevels[h],
                                     reliesOnCount        |-> DesignLevels[r],
                                     usedByCount          |-> DesignLevels[u],
                                     specializesCount     |-> DesignLevels[s],
                                     generalizesCount     |-> DesignLevels[g]])>>) :
      e \in DLevels, h \in DLevels, r \in DLevels,
      u \in DLevels, s \in DLevels, g \in DLevels }

NextScore ==
  \/ PerformSearch(1, ScoreTerm)
  \/ \E reply \in ScoreSearchReplies : SearchSettles(1, reply)
  \/ \E reply \in ScoreAdoptionReplies : MetadataSettles(1, "adoption", reply)
  \/ \E reply \in ScoreDesignReplies : MetadataSettles(1, "design", reply)

SpecScore == Init /\ [][NextScore]_vars

AdoptionFields == {"reusedByVocabularies", "reusedByDatasets", "occurrencesInDatasets"}

DesignFields ==
  {"extends", "hasEquivalencesWith", "reliesOn", "usedBy", "specializes", "generalizes"}

\* s is the decimal string of a non-negative integer.
IsDecimalString(v) ==
  v.k = "string" /\ Len(v.s) > 0 /\ \A p \in DOMAIN v.s : IsDigit(v.s[p])

\* The metrics of record are valid: decimal strings and non-negative integers.
ValidMetrics(record) ==
  /\ \A f \in AdoptionFields : IsDecimalString(record.adoptionData[f])
  /\ \A f \in DesignFields :
       record.designData[f].k = "number" /\ record.designData[f].n >= 0

\* x is a number of the closed range [0,1].
InUnitRange(x) == x.k = "number" /\ 0 <= x.n /\ x.n <= ScoreOne

\* C12: the score of a published record with valid metrics is the value
\* calculateConnectivityScore returns for them, and lies in [0,1].
C12_ValidMetricsScoreInUnitRange ==
  \A i \in Invs :
    outcome[i] = "published" =>
      \A p \in DOMAIN published[i] :
        LET record == published[i][p]
        IN  ValidMetrics(record) =>
              /\ record.connectivityScore =
                   calculateConnectivityScore(record.adoptionData, record.designData)
              /\ InUnitRange(record.connectivityScore)

\* A record with the six design counts at 99 and reusedByVocabularies "99"
\* is published with the score 1, the cap.
C12_Witness ==
  /\ outcome[1] = "published" /\ Len(published[1]) = 1
  /\ ValidMetrics(published[1][1])
  /\ \A f \in DesignFields : published[1][1].designData[f] = JsNum(99)
  /\ published[1][1].adoptionData["reusedByVocabularies"] = JsStr(<<"9", "9">>)
  /\ published[1][1].connectivityScore = JsNum(ScoreOne)

\* Every metric of record is zero: "0" for the adoption fields, 0 for the
\* design counts.
AllZero(record) ==
  /\ \A f \in AdoptionFields : record.adoptionData[f] = JsStr(<<"0">>)
  /\ \A f \in DesignFields : record.designData[f] = JsNum(0)

\* C13: a record whose nine metrics are all zero has the score 0 exactly.
C13_AllZeroScoresZero ==
  \A i \in Invs :
    outcome[i] = "published" =>
      \A p \in DOMAIN published[i] :
        AllZero(published[i][p]) =>
          /\ published[i][p].connectivityScore = JsNum(0)
          /\ calculateConnectivityScore(published[i][p].adoptionData,
                                        published[i][p].designData) = JsNum(0)

\* Both graph queries returned a row for A with every count "0", and A is
\* published with the score 0.
C13_Witness ==
  /\ outcome[1] = "published" /\ Len(published[1]) = 1
  /\ "A" \in DOMAIN MapsOf(1)[1] /\ "A" \in DOMAIN MapsOf(1)[2]
  /\ AllZero(published[1][1])
  /\ published[1][1].connectivityScore = JsNum(0)

\* x <= y for two scores that are numbers.
ScoreAtMost(x, y) == x.k = "number" /\ y.k = "number" /\ x.n <= y.n

\* The count a valid adoption string stands for.
CountOf(v) == ParseInt(v).n

\* The strings among the first n + 1 of levels (the n in use and one more)
\* that stand for a count greater than that of v.
Greater(levels, n, v) ==
  { levels[l] : l \in { k \in DOMAIN levels :
                          k <= n + 1 /\ CountOf(JsStr(levels[k])) > CountOf(v) } }

AdoptionLevelsOf(f) ==
  IF f = "occurrencesInDatasets" THEN OccurrenceLevels ELSE CountLevels

\* C14: raising one metric of a published record with valid metrics, the
\* others kept, gives a score that is not less than the record's.
C14_ScoreMonotonicInEachMetric ==
  \A i \in Invs :
    outcome[i] = "published" =>
      \A p \in DOMAIN published[i] :
        LET record == published[i][p]
            score  == calculateConnectivityScore(record.adoptionData, record.designData)
        IN  ValidMetrics(record) =>
              /\ \A f \in AdoptionFields :
                   \A s \in Greater(AdoptionLevelsOf(f), MaxLevel, record.adoptionData[f]) :
                     ScoreAtMost(score,
                       calculateConnectivityScore(
                         [record.adoptionData EXCEPT ![f] = JsStr(s)], record.designData))
              /\ \A f \in DesignFields :
                   \A s \in Greater(DesignLevels, MaxDesignLevel, JsStr(<<"0">>)) :
                     CountOf(JsStr(s)) > record.designData[f].n =>
                       ScoreAtMost(score,
                         calculateConnectivityScore(record.adoptionData,
                           [record.designData EXCEPT ![f] = JsNum(CountOf(JsStr(s)))]))

\* A published record at the cap whose reusedByDatasets is "0": raising it
\* to "19" leaves the score at 1.
C14_Witness ==
  /\ outcome[1] = "published" /\ Len(published[1]) = 1
  /\ LET record == published[1][1]
     IN  /\ ValidMetrics(record)
         /\ record.connectivityScore = JsNum(ScoreOne)
         /\ record.adoptionData["reusedByDatasets"] = JsStr(<<"0">>)
         /\ calculateConnectivityScore(
              [record.adoptionData EXCEPT !["reusedByDatasets"] = JsStr(<<"1", "9">>)],
              record.designData) = JsNum(ScoreOne)

\* record carries the default metrics and the score 0.
HasDefaults(record) ==
  /\ record.adoptionData = DefaultAdoption
  /\ record.designData = DefaultDesign
  /\ record.connectivityScore = JsNum(0)

\* The uris given to the two metadata functions by invocation i.
UrisSent(i) ==
  { vocabularyUrisOf(lovResults[i])[p] : p \in DOMAIN vocabularyUrisOf(lovResults[i]) }

\* C15: a search row without a uri is left out of the uris sent to the graph
\* queries and is published with the default metrics and the score 0,
\* whatever the two mappings hold.
C15_RowWithoutUriKeepsDefaults ==
  \A i \in Invs :
    /\ NoUri \notin UrisSent(i)
    /\ outcome[i] = "published" =>
         /\ \A p \in DOMAIN lovResults[i] :
              lovResults[i][p].uri = NoUri =>
                \E q \in DOMAIN published[i] : published[i][q].uri = NoUri
         /\ \A q \in DOMAIN published[i] :
              published[i][q].uri = NoUri => HasDefaults(published[i][q])

\* What does hold: C15 for the mappings without an entry under the property
\* key that a missing uri turns into.
RowWithoutUriKeepsDefaultsUnlessKeyed ==
  \A i \in Invs :
    (/\ outcome[i] = "published"
     /\ PropertyKey(NoUri) \notin DOMAIN MapsOf(i)[1]
     /\ PropertyKey(NoUri) \notin DOMAIN MapsOf(i)[2])
      => \A q \in DOMAIN published[i] :
           published[i][q].uri = NoUri => HasDefaults(published[i][q])

\* A row without a uri published with the defaults beside row A, while both
\* mappings hold metadata for A.
RowWithoutUriPublished ==
  \E i \in Invs :
    /\ outcome[i] = "published"
    /\ "A" \in DOMAIN MapsOf(i)[1] /\ "A" \in DOMAIN MapsOf(i)[2]
    /\ \E q \in DOMAIN published[i] :
         published[i][q].uri = NoUri /\ HasDefaults(published[i][q])

\* C16: when the search returned rows and none has a uri, both metadata
\* functions return an empty mapping without a fetch: the keyword search is
\* the only request of the invocation, and every row is published with the
\* default metrics.
C16_NoUrisNoGraphQueries ==
  \A i \in Invs :
    (pc[i] \in {"metadata", "done"} /\ lovResults[i] # <<>> /\ UrisSent(i) = {})
      => /\ fetches[i] = [search |-> "settled", adoption |-> "none", design |-> "none"]
         /\ \A f \in Facets : metadata[i][f] = Fulfilled(EmptyMap)
         /\ outcome[i] = "published"
         /\ Len(published[i]) = Len(lovResults[i])
         /\ \A q \in DOMAIN published[i] : HasDefaults(published[i][q])

\* Two rows without a uri have just been published by the search reply.
C16_Witness ==
  \E i \in Invs :
    /\ JustReplied(i, "search") /\ outcome[i] = "published"
    /\ Len(published[i]) = 2
    /\ \A p \in DOMAIN lovResults[i] : lovResults[i][p].uri = NoUri
    /\ fetches[i].adoption = "none" /\ fetches[i].design = "none"

(***************************************************************************)
(* Overlapping invocations whose remote calls all settle: every fetch that *)
(* is pending eventually resolves or fails.                                *)
(***************************************************************************)
\* A reply that makes the metadata function of facet throw.
NoArrayReply(facet) ==
  IF facet = "adoption" THEN Body("noBindings", <<>>) ELSE Body("bindingsNotArray", <<>>)

\* Some pending fetch settles, here with a reply that holds no rows.
Settles ==
  \E i \in Invs :
    \/ SearchSettles(i, NetFail)
    \/ \E f \in Facets : MetadataSettles(i, f, NoArrayReply(f))

\* Settles is enabled exactly while some fetch is pending, and it cannot be
\* taken for ever, since an invocation makes each of its fetches once.  Weak
\* fairness of it therefore excludes the behaviours in which a fetch stays
\* pending for ever, and no other: each remote call eventually resolves or
\* fails, with any of the replies of Next.
EveryCallSettles == WF_vars(Settles)

SpecLive == Spec /\ EveryCallSettles

\* Invocation i has been called and has not returned.
InFlight(i) == pc[i] \in {"searching", "metadata"}

\* The steps of one invocation: called with a blank term it returns at once;
\* otherwise it searches, and from there either ends (empty or failed) or
\* awaits the metadata and then ends (published or failed).
Lifecycle ==
  { <<"idle", "done", "cleared">>,
    <<"idle", "searching", "none">>,
    <<"searching", "done", "empty">>, <<"searching", "done", "failed">>,
    <<"searching", "done", "published">>,
    <<"searching", "metadata", "none">>,
    <<"metadata", "done", "published">>, <<"metadata", "done", "failed">> }

\* C17: every invocation moves along idle, searching, metadata, done only;
\* if every remote call settles, an invocation in flight eventually returns;
\* and whenever no invocation is in flight loading is false, however the
\* invocations ended.
C17_InvocationCompletesAndClearsLoading ==
  /\ [][\A i \in Invs :
          pc'[i] # pc[i] => <<pc[i], pc'[i], outcome'[i]>> \in Lifecycle]_vars
  /\ []((\A i \in Invs : ~InFlight(i)) => loading = FALSE)
  /\ \A i \in Invs : InFlight(i) ~> (pc[i] = "done")

\* No invocation is in flight, one has failed and another has published.
C17_Witness ==
  /\ \A i \in Invs : ~InFlight(i)
  /\ \E i, j \in Invs : outcome[i] = "failed" /\ outcome[j] = "published"
  /\ loading = FALSE

\* Settles is enabled exactly while some fetch is pending.
SettlesEnabledWhilePending ==
  (ENABLED Settles) <=>
    \E i \in Invs : \E r \in DOMAIN NoFetches : fetches[i][r] = "pending"

\* The outcomes with which an invocation calls setSearchResults.
Writes == {"cleared", "empty", "published"}

\* The list invocation i gave to setSearchResults.
OutputOf(i) == IF outcome[i] = "published" THEN published[i] ELSE <<>>

Requests == DOMAIN NoFetches

\* C19: each fetch of an invocation is made at most once (its status only
\* goes from not made to pending to settled), a graph query is issued in
\* the step that handles the keyword-search reply, and a reply settles its
\* fetch whatever it is: no request is issued again after a failure.
C19_EveryCallSingleAttempt ==
  [][\A i \in Invs : \A r \in Requests :
       /\ fetches'[i][r] # fetches[i][r]
            => <<fetches[i][r], fetches'[i][r]>> \in
                 {<<"none", "pending">>, <<"pending", "settled">>}
       /\ (r \in Facets /\ fetches[i][r] = "none" /\ fetches'[i][r] = "pending")
            => (fetches[i].search = "pending" /\ fetches'[i].search = "settled")
       /\ (last'.inv = i /\ last'.op = r) => fetches'[i][r] = "settled"]_vars

\* A graph query has just failed at the transport level; its fetch is
\* settled and the invocation has published without it.
C19_Witness ==
  \E i \in Invs : \E f \in Facets :
    /\ JustReplied(i, f) /\ last.kind \in {"transport", "status"}
    /\ fetches[i][f] = "settled"
    /\ outcome[i] = "published"

OtherFacet(f) == IF f = "adoption" THEN "design" ELSE "adoption"

\* The metrics of facet f that record carries, and the defaults of f.
MetricsOf(record, f) == IF f = "adoption" THEN record.adoptionData ELSE record.designData
DefaultsOf(f) == IF f = "adoption" THEN DefaultAdoption ELSE DefaultDesign

\* C20: a graph query that fails at the transport level (the fetch rejects
\* or the status is no success) gives an empty mapping; if the other query
\* gave a mapping, the invocation publishes with error null, every record
\* carries the defaults for the failed facet, and a record with a uri
\* carries for the other facet what that facet's query returned for the uri
\* (its defaults if the query returned nothing for it).
C20_OneFailedQueryIsIsolated ==
  \A i \in Invs : \A f \in Facets :
    /\ (JustReplied(i, f) /\ last.kind \in {"transport", "status"})
         => /\ metadata[i][f] = Fulfilled(EmptyMap)
            /\ metadata[i][OtherFacet(f)].st = "fulfilled"
                 => (outcome[i] = "published" /\ error = Null /\ loading = FALSE)
    /\ (outcome[i] = "published" /\ metadata[i][f] = Fulfilled(EmptyMap))
         => \A q \in DOMAIN published[i] :
              LET record == published[i][q]
                  other  == metadata[i][OtherFacet(f)].map
              IN  /\ MetricsOf(record, f) = DefaultsOf(f)
                  /\ record.uri # NoUri =>
                       MetricsOf(record, OtherFacet(f)) =
                         IF record.uri \in DOMAIN other THEN other[record.uri]
                                                        ELSE DefaultsOf(OtherFacet(f))

\* The adoption query has just failed after the design query returned
\* counts for A: A is published with those counts and the adoption defaults.
C20_Witness ==
  \E i \in Invs :
    /\ JustReplied(i, "adoption") /\ last.kind \in {"transport", "status"}
    /\ outcome[i] = "published" /\ error = Null
    /\ "A" \in DOMAIN metadata[i]["design"].map
    /\ \E q \in DOMAIN published[i] :
         /\ published[i][q].uri = "A"
         /\ published[i][q].adoptionData = DefaultAdoption
         /\ published[i][q].designData = metadata[i]["design"].map["A"]
         /\ published[i][q].designData # DefaultDesign

\* record without the fields that hold zero.
WithoutZeros(record, zero) ==
  [g \in {f \in DOMAIN record : record[f] # zero} |-> record[g]]

\* No integer can be read from v: it is undefined, it is NaN, or it is a
\* string that does not start, after white space and one sign, with a digit.
Unparseable(v) ==
  \/ v.k \in {"undefined", "NaN"}
  \/ /\ v.k = "string"
     /\ LET t      == TrimStart(v.s)
            signed == t # <<>> /\ Head(t) \in {"-", "+"}
            rest   == IF signed THEN Tail(t) ELSE t
        IN  rest = <<>> \/ ~IsDigit(Head(rest))

\* C21: for the metrics of every published record, a field that is missing
\* or from which no integer can be read counts as 0: the score
\* calculateConnectivityScore returns is unchanged when "0" (adoption) or 0
\* (design) is put in the place of such a field, and it is the score of
\* the same metrics with every field that holds "0" or 0 taken out.
C21_MissingOrUnparseableCountsAsZero ==
  \A i \in Invs :
    outcome[i] = "published" =>
      \A p \in DOMAIN published[i] :
        LET adoption == published[i][p].adoptionData
            design   == published[i][p].designData
            score    == calculateConnectivityScore(adoption, design)
        IN  /\ published[i][p].connectivityScore = score
            /\ calculateConnectivityScore(WithoutZeros(adoption, JsStr(Zero)),
                                          WithoutZeros(design, JsNum(0))) = score
            /\ \A f \in AdoptionFields :
                 Unparseable(adoption[f]) =>
                   calculateConnectivityScore(
                     [adoption EXCEPT ![f] = JsStr(Zero)], design) = score
            /\ \A f \in DesignFields :
                 Unparseable(design[f]) =>
                   calculateConnectivityScore(
                     adoption, [design EXCEPT ![f] = JsNum(0)]) = score

\* Row B is published with occurrencesInDatasets "abc" and the design count
\* extends NaN (parseInt of "abc"), and its score is that of
\* reusedByVocabularies "2" alone.
C21_Witness ==
  \E i \in Invs :
    /\ outcome[i] = "published"
    /\ \E p \in DOMAIN published[i] :
         /\ published[i][p].uri = "B"
         /\ published[i][p].adoptionData["occurrencesInDatasets"] = JsStr(<<"a", "b", "c">>)
         /\ published[i][p].adoptionData["reusedByVocabularies"] = JsStr(<<"2">>)
         /\ published[i][p].designData["extends"] = NaN
         /\ published[i][p].connectivityScore = JsNum(4 * 1098612)

\* C22: the score of every published record, whatever strings the endpoint
\* sent for its counts (a count that parses to a negative integer included),
\* is the number calculateConnectivityScore returns and lies in [0,1]: it is
\* never negative, never -Infinity and never NaN.
C22_ScoreClampedOnBothSides ==
  \A i \in Invs :
    outcome[i] = "published" =>
      \A p \in DOMAIN published[i] :
        /\ published[i][p].connectivityScore =
             calculateConnectivityScore(published[i][p].adoptionData,
                                        published[i][p].designData)
        /\ InUnitRange(published[i][p].connectivityScore)

\* Row A is published with reusedByVocabularies "-5", which parses to -5,
\* and its score is NaN.
NegativeCountPublished ==
  \E i \in Invs :
    /\ outcome[i] = "published"
    /\ \E p \in DOMAIN published[i] :
         /\ published[i][p].uri = "A"
         /\ published[i][p].adoptionData["reusedByVocabularies"] = JsStr(<<"-", "5">>)
         /\ ParseInt(published[i][p].adoptionData["reusedByVocabularies"]) = JsNum(0 - 5)
         /\ published[i][p].connectivityScore = NaN

\* C23: in every state between two blocks, whatever the interleaving of the
\* invocations, loading = true implies error = null.
C23_LoadingImpliesNoError ==
  loading = TRUE => error = Null

\* An invocation has failed and set the message; a later one has just been
\* called: loading is true and the message is gone.
C23_Witness ==
  \E i, j \in Invs :
    /\ i < j /\ outcome[i] = "failed"
    /\ JustCalled(j) /\ pc[j] = "searching"
    /\ loading = TRUE /\ error = Null

\* list is the complete merge of the search rows of invocation i: one record
\* per row, each with the metrics the two mappings give its uri (or the
\* defaults) and with the score of those metrics.
CompleteListOf(list, i) ==
  /\ BothFulfilled(i)
  /\ Len(list) = Len(lovResults[i])
  /\ \E f \in Bijections(list) :
       \A p \in DOMAIN list : FromRow(list[p], lovResults[i][f[p]])
  /\ \A p \in DOMAIN list :
       /\ list[p].adoptionData = Lookup(MapsOf(i)[1], list[p].uri, DefaultAdoption)
       /\ list[p].designData = Lookup(MapsOf(i)[2], list[p].uri, DefaultDesign)
       /\ list[p].connectivityScore =
            calculateConnectivityScore(list[p].adoptionData, list[p].designData)

\* C24: in every state the result list is empty or is the list one
\* invocation published, complete (every search row of that invocation,
\* merged and scored) and in non-increasing order of score.
C24_ContainerEmptyOrCompleteSortedList ==
  \/ searchResults = <<>>
  \/ \E i \in Invs :
       /\ outcome[i] = "published" /\ searchResults = published[i]
       /\ CompleteListOf(searchResults, i)
       /\ NonIncreasing(searchResults)

\* What does hold: the result list is empty or the complete list of one
\* invocation, in non-increasing order of score unless a score is NaN.
ContainerEmptyOrCompleteList ==
  \/ searchResults = <<>>
  \/ \E i \in Invs :
       /\ outcome[i] = "published" /\ searchResults = published[i]
       /\ CompleteListOf(searchResults, i)
       /\ (\A p \in DOMAIN searchResults : searchResults[p].connectivityScore.k # "NaN")
            => NonIncreasing(searchResults)

\* The result list holds three records, complete and sorted, in another
\* order than the search rows they were made from.
CompleteSortedListStored ==
  \E i \in Invs :
    /\ outcome[i] = "published" /\ searchResults = published[i]
    /\ Len(searchResults) = 3
    /\ CompleteListOf(searchResults, i) /\ NonIncreasing(searchResults)
    /\ UrisOf(searchResults) # UrisOf(lovResults[i])

\* What the model keeps of invocation j besides its term.
ProgressOf(j) ==
  <<pc[j], lovResults[j], fetches[j], metadata[j], settled[j], outcome[j], published[j]>>

\* C25: the call of an invocation with an empty or white-space-only term
\* empties the result list and changes nothing else: loading and error stay
\* as they were (a failure message stays set), and every other invocation
\* stays where it was, its pending fetches still pending; an invocation in
\* flight always has a fetch pending, whose reply it will handle.
C25_BlankCallChangesOnlyResults ==
  /\ [][\A i \in Invs :
          (pc[i] = "idle" /\ pc'[i] # "idle" /\ IsBlank(term'[i]))
            => /\ searchResults' = <<>>
               /\ loading' = loading /\ error' = error
               /\ \A j \in Invs \ {i} : ProgressOf(j)' = ProgressOf(j)]_vars
  /\ [](\A j \in Invs :
          InFlight(j) => \E r \in Requests : fetches[j][r] = "pending")

\* Invocation 2 was called with a blank term while invocation 1 was in
\* flight and emptied the list; invocation 1 has just published a list over
\* it.
C25_Witness ==
  /\ IsBlank(term[2]) /\ outcome[2] = "cleared"
  /\ last.inv = 1 /\ last.op \in Facets /\ outcome[1] = "published"
  /\ searchResults = published[1] /\ searchResults # <<>>

\* Invocation 1 failed; invocation 2 has just been called with a blank term
\* and the failure message is still set.
ErrorSurvivesBlankCall ==
  /\ outcome[1] = "failed"
  /\ JustCalled(2) /\ IsBlank(term[2]) /\ outcome[2] = "cleared"
  /\ error = SearchFailedMessage /\ loading = FALSE

\* The Search button can be clicked: disabled={loading}.
ButtonEnabled == loading = FALSE

\* C26: whenever an invocation with a non-blank term is in flight, loading
\* is true and the Search button is disabled, for every interleaving of the
\* invocations.
C26_InFlightImpliesLoading ==
  \A i \in Invs : InFlight(i) => (loading = TRUE /\ ~ButtonEnabled)

\* What does hold: loading is true while an invocation is in flight and no
\* invocation with a non-blank term has returned.
InFlightImpliesLoadingUntilOneReturns ==
  (/\ \E i \in Invs : InFlight(i)
   /\ \A j \in Invs : pc[j] = "done" => outcome[j] = "cleared")
    => (loading = TRUE /\ ~ButtonEnabled)

\* Invocation 2 has just been called while invocation 1 is in flight (the
\* Enter key, the button being disabled), and loading is true.
SecondCalledDuringFirst ==
  /\ InFlight(1) /\ JustCalled(2) /\ InFlight(2)
  /\ loading = TRUE /\ ~ButtonEnabled

\* Invocation i is the most recently started one with a non-blank term.
LatestSearch(i) ==
  /\ pc[i] # "idle" /\ ~IsBlank(term[i])
  /\ \A j \in Invs : (j > i /\ pc[j] # "idle") => IsBlank(term[j])

\* C27: whenever no invocation is in flight and error is set, the most
\* recently started invocation with a non-blank term has failed; so once
\* that invocation has published and nothing is in flight, error is null.
C27_ErrorRefersToLatestSearch ==
  ((\A i \in Invs : ~InFlight(i)) /\ error # Null)
    => \E i \in Invs : LatestSearch(i) /\ outcome[i] = "failed"

\* What does hold: error is set only by an invocation that failed, and it
\* stays set until the next call with a non-blank term.
ErrorSetOnlyByFailure ==
  /\ [](error # Null => \E i \in Invs : outcome[i] = "failed")
  /\ [][(error # Null /\ error' = Null)
          => \E i \in Invs : pc[i] = "idle" /\ pc'[i] = "searching"]_vars

\* Nothing is in flight, the most recently started search has failed after
\* an earlier one published, and the failure message is set.
FailureOfLatestDisplayed ==
  /\ \A i \in Invs : ~InFlight(i)
  /\ outcome[1] = "published" /\ LatestSearch(2) /\ outcome[2] = "failed"
  /\ last.inv = 2
  /\ error = SearchFailedMessage

=============================================================================
